---- MODULE Spec2Model ----
(***************************************************************************)
(* Model of helper_func.py: progressbar, data_by_region, plot_smooth, mad. *)
(* Each function is a sequential routine; its position is a pc variable    *)
(* and every group of source lines is one action.  A raised exception      *)
(* ends the call with pc = "raised" and the exception's name recorded.     *)
(***************************************************************************)
EXTENDS Integers, Sequences, FiniteSets, TLC

VARIABLES
  \* progressbar(iterable, prefix, size, file)
  iterable,      \* the sequence handed to progressbar
  size,          \* bar width
  pb_pc,         \* "idle" | "created" | "yielded" | "done" | "raised"
  pb_i,          \* loop index i of enumerate(iterable) at the last yield
  pb_items,      \* items the consumer has received, in order
  file,          \* writes received by the output stream, in order
  pb_exc,        \* exception raised by the generator, or "none"
  \* mad(arr)
  arr,           \* the collection handed to mad
  mad_pc,        \* "idle" | "call" | "returned"
  mad_ret,       \* value returned by mad
  \* data_by_region(region_name)
  region_name,   \* the name passed in, a sequence of characters
  ts,            \* the rows of the fetched CSV, in file order
  dbr_pc,        \* "idle" | "l37" | "l43" | "l45" | "l47" | "l49" | "returned" | "raised"
  regione,       \* the table being built, column by column
  dbr_exc,       \* [name, line] of the exception raised, name "none" if none
  \* plot_smooth(region, type, time_window, smooth_window, save)
  region,        \* the table passed in: its region and its number of rows
  type,          \* the selector; rebound to the axis label by lines 66-78
  time_window,   \* the Python value passed in; an int once line 62 has run
  smooth_window, \* the Python value passed in; an int once line 62 has run
  save,          \* whether the figure is saved
  column,        \* the local variable column, "<unbound>" until assigned
  tick_freq,     \* the local variable tick_freq, 0 until line 95 has run
  ps_pc,         \* "idle" | "l62" | "l63" | "l65" | "l87" | "l91" | "l95" | "l97" | "l102" | "returned" | "raised"
  plt,           \* calls received by the plotting backend, in order
  stdout,        \* lines printed
  ps_exc         \* [name, line] of the exception raised, name "none" if none

pbVars  == <<iterable, size, pb_pc, pb_i, pb_items, file, pb_exc>>
madVars == <<arr, mad_pc, mad_ret>>
dbrVars == <<region_name, ts, dbr_pc, regione, dbr_exc>>
psVars  == <<region, type, time_window, smooth_window, save, column, tick_freq,
             ps_pc, plt, stdout, ps_exc>>
vars    == <<pbVars, madVars, dbrVars, psVars>>

(***************************************************************************)
(* Bounds of the model.                                                    *)
(***************************************************************************)
MaxLen  == 3     \* longest iterable handed to progressbar
MaxItem == 3     \* items of an iterable are 1..MaxItem
MaxArr  == 3     \* longest collection handed to mad
MaxRows == 3     \* most rows of a fetched dataset whose columns vary freely
MaxFilterRows == 3  \* most rows of a fetched dataset whose region names vary freely
MaxWindow == 26  \* largest integer passed as time_window
MaxPlotRows == 4 \* most rows of a table passed to plot_smooth

DefaultSize == 50

(***************************************************************************)
(* Floating-point values.  A float is NaN, +/-infinity or a rational       *)
(* n/d kept in lowest terms with d > 0.                                    *)
(***************************************************************************)
Abs(x) == IF x < 0 THEN -x ELSE x

RECURSIVE Gcd(_, _)
Gcd(a, b) == IF b = 0 THEN a ELSE Gcd(b, a % b)

NaN     == [k |-> "nan", n |-> 0, d |-> 1]
Inf(s)  == [k |-> "inf", n |-> s, d |-> 1]
Rat(a, b) ==
  LET g == Gcd(Abs(a), Abs(b))
      s == IF b < 0 THEN -1 ELSE 1
  IN  [k |-> "num", n |-> s * (a \div g), d |-> s * (b \div g)]
Num(v)  == [k |-> "num", n |-> v, d |-> 1]

IsNaN(x) == x.k = "nan"
IsNum(x) == x.k = "num"

\* IEEE subtraction, absolute value and ordering on the floats above
FSub(x, y) ==
  IF IsNaN(x) \/ IsNaN(y) THEN NaN
  ELSE IF x.k = "inf" /\ y.k = "inf" THEN (IF x.n = y.n THEN NaN ELSE x)
  ELSE IF x.k = "inf" THEN x
  ELSE IF y.k = "inf" THEN Inf(-y.n)
  ELSE Rat(x.n * y.d - y.n * x.d, x.d * y.d)

FAbs(x) ==
  IF IsNaN(x) THEN NaN
  ELSE IF x.k = "inf" THEN Inf(1)
  ELSE Rat(Abs(x.n), x.d)

FLeq(x, y) ==
  IF x.k = "inf" THEN (x.n = -1 \/ (y.k = "inf" /\ y.n = 1))
  ELSE IF y.k = "inf" THEN y.n = 1
  ELSE x.n * y.d <= y.n * x.d

FMean2(x, y) ==
  IF IsNaN(x) \/ IsNaN(y) THEN NaN
  ELSE IF x.k = "inf" /\ y.k = "inf" THEN (IF x.n = y.n THEN x ELSE NaN)
  ELSE IF x.k = "inf" THEN x
  ELSE IF y.k = "inf" THEN y
  ELSE Rat(x.n * y.d + y.n * x.d, 2 * x.d * y.d)

\* A division that yields NaN for every zero divisor
FDivZeroIsNaN(x, y) ==
  IF IsNaN(x) \/ IsNaN(y) THEN NaN
  ELSE IF x.k = "inf" /\ y.k = "inf" THEN NaN
  ELSE IF x.k = "inf" THEN (IF y.n < 0 THEN Inf(-x.n) ELSE x)
  ELSE IF y.k = "inf" THEN Num(0)
  ELSE IF y.n = 0 THEN NaN
  ELSE Rat(x.n * y.d, x.d * y.n)

\* x / y as numpy and pandas divide integer columns: no exception is raised
FDiv(x, y) ==
  IF IsNaN(x) \/ IsNaN(y) THEN NaN
  ELSE IF x.k = "inf" /\ y.k = "inf" THEN NaN
  ELSE IF x.k = "inf" THEN (IF y.n < 0 THEN Inf(-x.n) ELSE x)
  ELSE IF y.k = "inf" THEN Num(0)
  ELSE IF y.n = 0 THEN (IF x.n = 0 THEN NaN ELSE Inf(IF x.n < 0 THEN -1 ELSE 1))
  ELSE Rat(x.n * y.d, x.d * y.n)

(***************************************************************************)
(* Sequences                                                               *)
(***************************************************************************)
SeqsUpTo(S, n) == UNION {[1..m -> S] : m \in 0..n}
NonEmptySeqsUpTo(S, n) == UNION {[1..m -> S] : m \in 1..n}

RECURSIVE SelectIdx(_, _, _)
\* the elements s[i] with keep[i], in order
SelectIdx(s, keep, i) ==
  IF i > Len(s) THEN <<>>
  ELSE (IF keep[i] THEN <<s[i]>> ELSE <<>>) \o SelectIdx(s, keep, i + 1)

RECURSIVE InsertSorted(_, _)
InsertSorted(s, x) ==
  IF s = <<>> THEN <<x>>
  ELSE IF FLeq(x, Head(s)) THEN <<x>> \o s
  ELSE <<Head(s)>> \o InsertSorted(Tail(s), x)

RECURSIVE SortF(_)
SortF(s) == IF s = <<>> THEN <<>> ELSE InsertSorted(SortF(Tail(s)), Head(s))

(***************************************************************************)
(* progressbar                                                             *)
(***************************************************************************)
\* int(a/b) for a >= 0, b > 0
IntDiv(a, b) == a \div b

\* show(j): the write it makes, or the exception it raises
show(j, count, sz) ==
  IF count = 0
    THEN [exc |-> "ZeroDivisionError"]
    ELSE [exc |-> "none",
          w   |-> [kind |-> "bar", hashes |-> IntDiv(sz * j, count),
                   dots |-> sz - IntDiv(sz * j, count),
                   pct |-> IntDiv(100 * j, count)]]

Newline == [kind |-> "nl", hashes |-> 0, dots |-> 0, pct |-> 0]

\* An enumeration that walks the iterable from its end
EnumItemReversed(it, i) == it[Len(it) - i]

\* item produced by the i-th iteration (i counted from 0) of enumerate(iterable)
EnumItem(it, i) == it[i + 1]

\* First next(): count = len(iterable); show(0); the loop yields item 0.
PbFirstNext ==
  /\ pb_pc = "created"
  /\ LET r == show(0, Len(iterable), size) IN
       IF r.exc # "none"
         THEN /\ pb_pc' = "raised"
              /\ pb_exc' = r.exc
              /\ UNCHANGED <<pb_i, pb_items, file>>
         ELSE /\ file' = Append(file, r.w)
              /\ pb_items' = Append(pb_items, EnumItem(iterable, 0))
              /\ pb_i' = 0
              /\ pb_pc' = "yielded"
              /\ UNCHANGED pb_exc
  /\ UNCHANGED <<iterable, size, madVars, dbrVars, psVars>>

\* A later next(): show(i+1), then either the next yield or the final newline.
PbNext ==
  /\ pb_pc = "yielded"
  /\ LET r == show(pb_i + 1, Len(iterable), size) IN
       IF pb_i + 1 < Len(iterable)
         THEN /\ file' = Append(file, r.w)
              /\ pb_items' = Append(pb_items, EnumItem(iterable, pb_i + 1))
              /\ pb_i' = pb_i + 1
              /\ pb_pc' = "yielded"
         ELSE /\ file' = file \o <<r.w, Newline>>
              /\ pb_pc' = "done"
              /\ UNCHANGED <<pb_items, pb_i>>
  /\ UNCHANGED <<iterable, size, pb_exc, madVars, dbrVars, psVars>>

PbIdle  == /\ iterable = <<>> /\ size = 0 /\ pb_pc = "idle" /\ pb_i = 0
           /\ pb_items = <<>> /\ file = <<>> /\ pb_exc = "none"

(***************************************************************************)
(* mad                                                                     *)
(***************************************************************************)
\* np.ma.array(arr): no mask is given, so no entry is masked
MaArray(a) == [data |-> a, mask |-> [i \in DOMAIN a |-> FALSE]]

\* .compressed(): the non-masked data
Compressed(m) == SelectIdx(m.data, [i \in DOMAIN m.data |-> ~m.mask[i]], 1)

\* np.median: NaN for an empty array or when any entry is NaN
Median(a) ==
  IF a = <<>> \/ \E i \in DOMAIN a : IsNaN(a[i]) THEN NaN
  ELSE LET s == SortF(a)
           n == Len(s)
       IN  IF n % 2 = 1 THEN s[(n + 1) \div 2]
           ELSE FMean2(s[n \div 2], s[n \div 2 + 1])

mad(a) ==
  LET c   == Compressed(MaArray(a))
      med == Median(c)
  IN  Median([i \in DOMAIN c |-> FAbs(FSub(c[i], med))])

Mad ==
  /\ mad_pc = "call"
  /\ mad_ret' = mad(arr)
  /\ mad_pc' = "returned"
  /\ UNCHANGED <<arr, pbVars, dbrVars, psVars>>

MadIdle == arr = <<>> /\ mad_pc = "idle" /\ mad_ret = NaN

(***************************************************************************)
(* data_by_region                                                          *)
(***************************************************************************)
\* A character: a letter with its case, or a symbol (space, apostrophe, ...)
Letters == {"a", "e", "l", "m", "o", "p", "r", "t", "v", "d", "x"}
U(c) == [c |-> c, up |-> TRUE]
L(c) == [c |-> c, up |-> FALSE]
Sym(c) == [c |-> c, up |-> FALSE]
IsCased(ch) == ch.c \in Letters

\* A title-casing that upper-cases word starts and leaves the rest as written
titleKeepsRest(str) ==
  [i \in DOMAIN str |->
     IF IsCased(str[i]) /\ ~(i > 1 /\ IsCased(str[i - 1]))
       THEN [c |-> str[i].c, up |-> TRUE]
       ELSE str[i]]

\* str.title(): a cased character after an uncased one (or at the start) is
\* upper-cased, a cased character after a cased one is lower-cased
title(str) ==
  [i \in DOMAIN str |->
     IF IsCased(str[i])
       THEN [c |-> str[i].c, up |-> ~(i > 1 /\ IsCased(str[i - 1]))]
       ELSE str[i]]

\* np.diff(a): a[i+1] - a[i]
NpDiff(a) == [i \in 1..(Len(a) - 1) |-> FSub(a[i + 1], a[i])]

\* np.insert(a, obj, v): v placed before position obj (positions from 0)
NpInsert(a, obj, v) ==
  IF obj > Len(a)
    THEN [exc |-> "IndexError", val |-> <<>>]
    ELSE [exc |-> "none",
          val |-> SubSeq(a, 1, obj) \o <<v>> \o SubSeq(a, obj + 1, Len(a))]

\* position np.insert is called with on lines 44 and 46
InsertAt == 1

\* regione[col] = values: the lengths must agree
SetColumn(tbl, col, values) ==
  IF Len(values) # Len(tbl.index)
    THEN [exc |-> "ValueError", tbl |-> tbl]
    ELSE [exc |-> "none",
          tbl |-> [tbl EXCEPT ![col] = values,
                              !.columns = tbl.columns \cup {col}]]

\* ts[ts['denominazione_regione'] == name]: the matching rows, index kept
FilterRows(rows, name) ==
  LET keep == [i \in DOMAIN rows |-> rows[i].denominazione_regione = name]
      idx  == SelectIdx([i \in DOMAIN rows |-> i], keep, 1)
  IN  [columns |-> {"data", "denominazione_regione", "deceduti",
                    "tamponi_test_molecolare", "nuovi_positivi"},
       index |-> [j \in DOMAIN idx |-> idx[j] - 1],
       denominazione_regione |-> [j \in DOMAIN idx |-> rows[idx[j]].denominazione_regione],
       deceduti |-> [j \in DOMAIN idx |-> rows[idx[j]].deceduti],
       tamponi_test_molecolare |-> [j \in DOMAIN idx |-> rows[idx[j]].tamponi_test_molecolare],
       nuovi_positivi |-> [j \in DOMAIN idx |-> rows[idx[j]].nuovi_positivi],
       incremento_deceduti |-> <<>>,
       incremento_tamponi_molecolari |-> <<>>,
       tasso_positivita |-> <<>>]

EmptyTable == FilterRows(<<>>, <<>>)
NoExc == [name |-> "none", line |-> 0]

\* Lines 37-40: fetch, filter on the title-cased name, drop columns, reformat date
DbrFilter ==
  /\ dbr_pc = "l37"
  /\ regione' = FilterRows(ts, title(region_name))
  /\ dbr_pc' = "l43"
  /\ UNCHANGED <<region_name, ts, dbr_exc, pbVars, madVars, psVars>>

\* The column np.insert(np.diff(regione[src]), 1, 0) stored as regione[dst]
DiffColumn(tbl, src, dst) ==
  LET ins == NpInsert(NpDiff(tbl[src]), InsertAt, Num(0)) IN
    IF ins.exc # "none" THEN [exc |-> ins.exc, tbl |-> tbl]
    ELSE SetColumn(tbl, dst, ins.val)

\* Lines 43-44
DbrDeaths ==
  /\ dbr_pc = "l43"
  /\ LET r == DiffColumn(regione, "deceduti", "incremento_deceduti") IN
       /\ regione' = r.tbl
       /\ IF r.exc = "none"
            THEN dbr_pc' = "l45" /\ UNCHANGED dbr_exc
            ELSE dbr_pc' = "raised" /\ dbr_exc' = [name |-> r.exc, line |-> 44]
  /\ UNCHANGED <<region_name, ts, pbVars, madVars, psVars>>

\* Lines 45-46
DbrSwabs ==
  /\ dbr_pc = "l45"
  /\ LET r == DiffColumn(regione, "tamponi_test_molecolare",
                         "incremento_tamponi_molecolari") IN
       /\ regione' = r.tbl
       /\ IF r.exc = "none"
            THEN dbr_pc' = "l47" /\ UNCHANGED dbr_exc
            ELSE dbr_pc' = "raised" /\ dbr_exc' = [name |-> r.exc, line |-> 46]
  /\ UNCHANGED <<region_name, ts, pbVars, madVars, psVars>>

\* regione['nuovi_positivi'] / regione['incremento_tamponi_molecolari']
Positivity(tbl) ==
  [i \in DOMAIN tbl.index |->
     FDiv(tbl.nuovi_positivi[i], tbl.incremento_tamponi_molecolari[i])]

\* Line 47
DbrRate ==
  /\ dbr_pc = "l47"
  /\ LET r == SetColumn(regione, "tasso_positivita", Positivity(regione)) IN
       /\ regione' = r.tbl
       /\ IF r.exc = "none"
            THEN dbr_pc' = "l49" /\ UNCHANGED dbr_exc
            ELSE dbr_pc' = "raised" /\ dbr_exc' = [name |-> r.exc, line |-> 47]
  /\ UNCHANGED <<region_name, ts, pbVars, madVars, psVars>>

\* Line 49
DbrReturn ==
  /\ dbr_pc = "l49"
  /\ dbr_pc' = "returned"
  /\ UNCHANGED <<region_name, ts, regione, dbr_exc, pbVars, madVars, psVars>>

DbrIdle == /\ region_name = <<>> /\ ts = <<>> /\ dbr_pc = "idle"
           /\ regione = EmptyTable /\ dbr_exc = NoExc

NextRegion == DbrFilter \/ DbrDeaths \/ DbrSwabs \/ DbrRate \/ DbrReturn

(***************************************************************************)
(* plot_smooth                                                             *)
(* The numbers held by the columns are not represented: a backend call is  *)
(* recorded with the column it draws and the number of points or ticks.    *)
(***************************************************************************)
\* Python values passed as window sizes
PyInt(v)   == [t |-> "int",   v |-> v, s |-> <<>>]
PyFloat(v) == [t |-> "float", v |-> v, s |-> <<>>]    \* the float v/10
PyStr(str) == [t |-> "str",   v |-> 0, s |-> str]     \* a sequence of characters
PyNone     == [t |-> "None",  v |-> 0, s |-> <<>>]

DigitVal == ("0" :> 0) @@ ("1" :> 1) @@ ("2" :> 2) @@ ("3" :> 3) @@ ("4" :> 4) @@
            ("5" :> 5) @@ ("6" :> 6) @@ ("7" :> 7) @@ ("8" :> 8) @@ ("9" :> 9)
IsDigit(c) == c \in DOMAIN DigitVal

RECURSIVE Strip(_)
\* str.strip() of blanks
Strip(str) ==
  IF str = <<>> THEN str
  ELSE IF Head(str) = " " THEN Strip(Tail(str))
  ELSE IF str[Len(str)] = " " THEN Strip(SubSeq(str, 1, Len(str) - 1))
  ELSE str

RECURSIVE Digits(_)
Digits(str) == IF str = <<>> THEN 0
               ELSE 10 * Digits(SubSeq(str, 1, Len(str) - 1)) + DigitVal[str[Len(str)]]

\* int(x): the integer, or the exception raised
int(x) ==
  CASE x.t = "int"   -> [exc |-> "none", v |-> x.v]
    [] x.t = "float" -> [exc |-> "none",
                         v |-> IF x.v < 0 THEN -((-x.v) \div 10) ELSE x.v \div 10]
    [] x.t = "None"  -> [exc |-> "TypeError", v |-> 0]
    [] x.t = "str"   ->
         LET str  == Strip(x.s)
             neg  == str # <<>> /\ Head(str) = "-"
             body == IF str # <<>> /\ Head(str) \in {"-", "+"} THEN Tail(str) ELSE str
         IN  IF body # <<>> /\ \A i \in DOMAIN body : IsDigit(body[i])
               THEN [exc |-> "none", v |-> IF neg THEN -Digits(body) ELSE Digits(body)]
               ELSE [exc |-> "ValueError", v |-> 0]

\* int(round(a/b, 0)) for b > 0: round half to even
RoundDiv(a, b) ==
  LET sgn == IF a < 0 THEN -1 ELSE 1
      m   == Abs(a)
      q   == m \div b
      r2  == 2 * (m % b)
  IN  sgn * (IF r2 > b \/ (r2 = b /\ q % 2 = 1) THEN q + 1 ELSE q)

\* number of rows of tail(n) of a table of len rows
TailLen(len, n) ==
  IF n >= 0 THEN (IF n < len THEN n ELSE len)
  ELSE (IF len + n > 0 THEN len + n ELSE 0)

\* number of elements of a[::step] for a of n elements, step # 0
SliceLen(n, step) == (n + Abs(step) - 1) \div Abs(step)

Call(name, col, n) == [call |-> name, col |-> col, n |-> n]
Raise(name, line) == [name |-> name, line |-> line]

Warning == "I'm sorry, I don't understand; remember that the allowed types are: positivi, deceduti, TI and positivita."

\* Line 62 run after the figure has been created
PsCoerceAfterFigure ==
  /\ ps_pc = "l62"
  /\ plt' = Append(plt, Call("figure", "", 0))
  /\ LET tw == int(time_window)
         sw == int(smooth_window)
     IN  IF tw.exc # "none"
           THEN /\ ps_pc' = "raised" /\ ps_exc' = Raise(tw.exc, 62)
                /\ UNCHANGED <<time_window, smooth_window>>
         ELSE IF sw.exc # "none"
           THEN /\ ps_pc' = "raised" /\ ps_exc' = Raise(sw.exc, 62)
                /\ UNCHANGED <<time_window, smooth_window>>
         ELSE /\ time_window' = PyInt(tw.v)
              /\ smooth_window' = PyInt(sw.v)
              /\ ps_pc' = "l63"
              /\ UNCHANGED ps_exc
  /\ UNCHANGED <<region, type, save, column, tick_freq, stdout,
                 pbVars, madVars, dbrVars>>

\* Line 62: both coercions, before anything else
PsCoerce ==
  /\ ps_pc = "l62"
  /\ LET tw == int(time_window)
         sw == int(smooth_window)
     IN  IF tw.exc # "none"
           THEN /\ ps_pc' = "raised" /\ ps_exc' = Raise(tw.exc, 62)
                /\ UNCHANGED <<time_window, smooth_window>>
         ELSE IF sw.exc # "none"
           THEN /\ ps_pc' = "raised" /\ ps_exc' = Raise(sw.exc, 62)
                /\ UNCHANGED <<time_window, smooth_window>>
         ELSE /\ time_window' = PyInt(tw.v)
              /\ smooth_window' = PyInt(sw.v)
              /\ ps_pc' = "l63"
              /\ UNCHANGED ps_exc
  /\ UNCHANGED <<region, type, save, column, tick_freq, plt, stdout,
                 pbVars, madVars, dbrVars>>

\* Line 63: plt.figure
PsFigure ==
  /\ ps_pc = "l63"
  /\ plt' = Append(plt, Call("figure", "", 0))
  /\ ps_pc' = "l65"
  /\ UNCHANGED <<region, type, time_window, smooth_window, save, column,
                 tick_freq, stdout, ps_exc, pbVars, madVars, dbrVars>>

\* Lines 65-84: the selector chooses the label and the column
PsSelect ==
  /\ ps_pc = "l65"
  /\ CASE type \in {"positivi", "None"} ->
            /\ type' = "nuovi positivi" /\ column' = "nuovi_positivi"
            /\ plt' = IF region.denominazione_regione = "Campania"
                        THEN Append(plt, Call("plot", "incidenza", 0))
                        ELSE plt
            /\ UNCHANGED stdout
       [] type = "deceduti" ->
            /\ type' = "incremento deceduti" /\ column' = "incremento_deceduti"
            /\ UNCHANGED <<plt, stdout>>
       [] type = "TI" ->
            /\ type' = "ingressi in TI" /\ column' = "ingressi_terapia_intensiva"
            /\ UNCHANGED <<plt, stdout>>
       [] type = "positivita" ->
            /\ type' = "tasso di positivita" /\ column' = "tasso_positivita"
            /\ plt' = plt \o <<Call("plot", "rolling median 30", 0),
                               Call("plot", "rolling median 7", 0)>>
            /\ UNCHANGED stdout
       [] OTHER ->
            /\ stdout' = Append(stdout, Warning)
            /\ UNCHANGED <<type, column, plt>>
  /\ ps_pc' = "l87"
  /\ UNCHANGED <<region, time_window, smooth_window, save, tick_freq, ps_exc,
                 pbVars, madVars, dbrVars>>

\* Lines 87-88: region[column].ewm(span=smooth_window), forward and backward
PsEma ==
  /\ ps_pc = "l87"
  /\ IF column = "<unbound>"
       THEN ps_pc' = "raised" /\ ps_exc' = Raise("UnboundLocalError", 87)
     ELSE IF smooth_window.v < 1
       THEN ps_pc' = "raised" /\ ps_exc' = Raise("ValueError", 87)
     ELSE ps_pc' = "l91" /\ UNCHANGED ps_exc
  /\ UNCHANGED <<region, type, time_window, smooth_window, save, column,
                 tick_freq, plt, stdout, pbVars, madVars, dbrVars>>

\* Lines 91-94: the raw and the smoothed line over tail(time_window)
PsPlot ==
  /\ ps_pc = "l91"
  /\ LET n == TailLen(region.rows, time_window.v) IN
       plt' = plt \o <<Call("plot", column, n), Call("plot", "fb_ema", n)>>
  /\ ps_pc' = "l95"
  /\ UNCHANGED <<region, type, time_window, smooth_window, save, column,
                 tick_freq, stdout, ps_exc, pbVars, madVars, dbrVars>>

\* tick_freq of line 95
TickFreq(tw) == RoundDiv(tw, 10)

\* Lines 95-96: every tick_freq-th tick is kept; a zero step is an error
PsTicks ==
  /\ ps_pc = "l95"
  /\ tick_freq' = TickFreq(time_window.v)
  /\ IF tick_freq' = 0
       THEN /\ ps_pc' = "raised" /\ ps_exc' = Raise("ValueError", 96)
            /\ UNCHANGED plt
       ELSE /\ plt' = Append(plt, Call("xticks", "",
                        SliceLen(TailLen(region.rows, time_window.v), tick_freq')))
            /\ ps_pc' = "l97"
            /\ UNCHANGED ps_exc
  /\ UNCHANGED <<region, type, time_window, smooth_window, save, column,
                 stdout, pbVars, madVars, dbrVars>>

\* Lines 97-100: ylabel, legend, title
PsLabels ==
  /\ ps_pc = "l97"
  /\ plt' = plt \o <<Call("ylabel", type, 0), Call("legend", "", 0),
                     Call("title", region.denominazione_regione, time_window.v)>>
  /\ ps_pc' = "l102"
  /\ UNCHANGED <<region, type, time_window, smooth_window, save, column,
                 tick_freq, stdout, ps_exc, pbVars, madVars, dbrVars>>

\* Lines 102-105: savefig when asked, then show
PsShow ==
  /\ ps_pc = "l102"
  /\ plt' = plt \o (IF save THEN <<Call("savefig", type, time_window.v)>> ELSE <<>>)
                \o <<Call("show", "", 0)>>
  /\ ps_pc' = "returned"
  /\ UNCHANGED <<region, type, time_window, smooth_window, save, column,
                 tick_freq, stdout, ps_exc, pbVars, madVars, dbrVars>>

PsIdle ==
  /\ region = [denominazione_regione |-> "", rows |-> 0]
  /\ type = "None" /\ time_window = PyNone /\ smooth_window = PyNone
  /\ save = FALSE /\ column = "<unbound>" /\ tick_freq = 0 /\ ps_pc = "idle"
  /\ plt = <<>> /\ stdout = <<>> /\ ps_exc = NoExc

NextPlot == PsCoerce \/ PsFigure \/ PsSelect \/ PsEma \/ PsPlot \/ PsTicks
            \/ PsLabels \/ PsShow

(***************************************************************************)
(* Specifications                                                          *)
(***************************************************************************)
Items == 1..MaxItem
Sizes == {1, MaxLen + 1, DefaultSize}

InitProgress ==
  /\ iterable \in SeqsUpTo(Items, MaxLen)
  /\ size \in Sizes
  /\ pb_pc = "created" /\ pb_i = 0 /\ pb_items = <<>> /\ file = <<>>
  /\ pb_exc = "none"
  /\ MadIdle /\ DbrIdle /\ PsIdle

NextProgress == PbFirstNext \/ PbNext
SpecProgress == InitProgress /\ [][NextProgress]_vars

ArrVals == {NaN, Num(0), Num(1), Num(2), Num(5)}

InitMad ==
  /\ arr \in SeqsUpTo(ArrVals, MaxArr)
  /\ mad_pc = "call" /\ mad_ret = NaN
  /\ PbIdle /\ DbrIdle /\ PsIdle

NextMad == Mad
SpecMad == InitMad /\ [][NextMad]_vars

(***************************************************************************)
(* Inputs of data_by_region.  Region names are shortened forms of names of *)
(* the CSV with the same shape: one word, a word with a hyphen, dotted     *)
(* initials, and a lower-case particle with an apostrophe.                 *)
(***************************************************************************)
Lazio        == <<U("l"), L("a")>>                                 \* "La"
EmiliaRom    == <<U("e"), L("m"), Sym("-"), U("r"), L("o")>>       \* "Em-Ro"
PATrento     == <<U("p"), Sym("."), U("a"), Sym("."), Sym(" "), U("t"), L("r")>>  \* "P.A. Tr"
ValleDAosta  == <<U("v"), L("a"), Sym(" "), L("d"), Sym("'"), U("a")>>   \* "Va d'A"
Unknown      == <<U("x"), L("x")>>                                 \* in no row

DatasetNames == {Lazio, EmiliaRom, PATrento, ValleDAosta}

\* every way of writing the letters of str in upper or lower case
Recapitalizations(str) ==
  {[i \in DOMAIN str |-> IF IsCased(str[i]) THEN [c |-> str[i].c, up |-> f[i]]
                         ELSE str[i]] : f \in [DOMAIN str -> BOOLEAN]}

SameLetters(s, t) ==
  /\ Len(s) = Len(t)
  /\ \A i \in DOMAIN s : s[i].c = t[i].c

InputNames == UNION {Recapitalizations(nm) : nm \in DatasetNames \cup {Unknown}}

Row(reg, dec, tam, pos) ==
  [denominazione_regione |-> reg, deceduti |-> dec,
   tamponi_test_molecolare |-> tam, nuovi_positivi |-> pos]

\* Datasets whose region names vary; the counters grow with the row number
FilterDatasets ==
  {[i \in DOMAIN regs |-> Row(regs[i], Num(2 * i), Num(10 * i), Num(i))] :
     regs \in NonEmptySeqsUpTo(DatasetNames, MaxFilterRows)}

InitRegionFilter ==
  /\ region_name \in InputNames
  /\ ts \in FilterDatasets
  /\ dbr_pc = "l37" /\ regione = EmptyTable /\ dbr_exc = NoExc
  /\ PbIdle /\ MadIdle /\ PsIdle

SpecRegionFilter == InitRegionFilter /\ [][NextRegion]_vars

\* Datasets of one region whose counters vary
DecedutiVals == {Num(1), Num(3)}
TamponiVals  == {NaN, Num(5), Num(7)}
PositiviVals == {Num(-1), Num(0), Num(2)}
ColumnRows   == {Row(Lazio, d, t, p) :
                   d \in DecedutiVals, t \in TamponiVals, p \in PositiviVals}

\* The ten-day series of the documentation's example
ExampleDeaths == <<0, 1, 3, 3, 6, 6, 6, 10, 10, 12>>
ExampleDataset ==
  [i \in DOMAIN ExampleDeaths |->
     Row(Lazio, Num(ExampleDeaths[i]), Num(100 * i), Num(i))]

InitRegionColumns ==
  /\ region_name \in {Lazio, Unknown}
  /\ ts \in NonEmptySeqsUpTo(ColumnRows, MaxRows) \cup {ExampleDataset}
  /\ dbr_pc = "l37" /\ regione = EmptyTable /\ dbr_exc = NoExc
  /\ PbIdle /\ MadIdle /\ PsIdle

SpecRegionColumns == InitRegionColumns /\ [][NextRegion]_vars

\* Inputs of plot_smooth.  "None" stands for Python's None, "positivita" for
\* the accented selector of line 77, "ricoverati" for a selector the
\* function does not know.
Selectors == {"None", "positivi", "deceduti", "TI", "positivita", "ricoverati"}
ValidSelectors == {"None", "positivi", "deceduti", "TI", "positivita"}
TimeWindows ==
  {PyInt(v) : v \in -1..MaxWindow}
    \cup {PyStr(<<"2", "1">>), PyStr(<<" ", "7">>), PyStr(<<"2", ".", "5">>),
          PyStr(<<>>), PyStr(<<"-", "3">>), PyFloat(149), PyNone}
SmoothWindows ==
  {PyInt(0), PyInt(1), PyInt(7), PyStr(<<"7">>), PyStr(<<"a">>), PyNone}
Regions ==
  {[denominazione_regione |-> nm, rows |-> n] :
     nm \in {"Campania", "Lazio"}, n \in 2..MaxPlotRows}

InitPlot ==
  /\ region \in Regions
  /\ type \in Selectors
  /\ time_window \in TimeWindows
  /\ smooth_window \in SmoothWindows
  /\ save \in BOOLEAN
  /\ column = "<unbound>" /\ tick_freq = 0 /\ ps_pc = "l62"
  /\ plt = <<>> /\ stdout = <<>> /\ ps_exc = NoExc
  /\ PbIdle /\ MadIdle /\ DbrIdle

SpecPlot == InitPlot /\ [][NextPlot]_vars

(***************************************************************************)
(* Properties                                                              *)
(***************************************************************************)
DbrPastLine44 == dbr_pc \in {"l45", "l47", "l49", "returned", "raised"}
DbrEnded      == dbr_pc \in {"returned", "raised"}

\* the delta column the documentation describes: 0, then d[i] - d[i-1]
ExpectedDelta(d) ==
  [i \in DOMAIN d |-> IF i = 1 THEN Num(0) ELSE FSub(d[i], d[i - 1])]

\* C1: for a region table with n >= 1 rows, the column incremento_deceduti
\* produced by data_by_region is 0 at the first row and d[i] - d[i-1] at
\* every later row.
C1_DeathDeltaColumn ==
  (DbrPastLine44 /\ Len(regione.deceduti) >= 1)
    => /\ dbr_exc.line # 44
       /\ regione.incremento_deceduti = ExpectedDelta(regione.deceduti)

NoRowMatches ==
  \A i \in DOMAIN ts : ts[i].denominazione_regione # title(region_name)

\* C3: called with a region name whose title-cased form matches no row,
\* data_by_region returns a table with zero rows and does not raise.
C3_UnknownRegionGivesEmptyTable ==
  (DbrEnded /\ NoRowMatches)
    => /\ dbr_pc = "returned"
       /\ dbr_exc.name = "none"
       /\ Len(regione.index) = 0

IsPrefix(s, t) == Len(s) <= Len(t) /\ s = SubSeq(t, 1, Len(s))

\* C4: a consumer that exhausts progressbar(sequence), N >= 1, has received
\* exactly the N items in their order; the stream has received one progress
\* write before the first item and one after each item (N+1 in all), and the
\* newline as its last write.  On the way, the items received are a prefix
\* of the sequence and each was preceded by a progress write.
C4_ProgressbarPassesItemsThrough ==
  /\ (pb_pc = "yielded")
       => /\ IsPrefix(pb_items, iterable)
          /\ Len(pb_items) = pb_i + 1
          /\ Len(file) = Len(pb_items)
          /\ \A j \in DOMAIN file : file[j].kind = "bar"
  /\ (pb_pc = "done" /\ Len(iterable) >= 1)
       => /\ pb_items = iterable
          /\ Len(file) = Len(iterable) + 2
          /\ \A j \in 1..(Len(iterable) + 1) : file[j].kind = "bar"
          /\ file[Len(file)] = Newline

C4_Witness ==
  /\ pb_pc = "done"
  /\ Len(iterable) = MaxLen
  /\ iterable[1] # iterable[2]
  /\ pb_items = iterable

\* C5: iterating progressbar over a sequence of length 0 does not fail:
\* no item is yielded and the iteration ends normally.
C5_EmptyIterableEndsNormally ==
  (Len(iterable) = 0 /\ pb_pc \notin {"idle", "created"})
    => /\ pb_pc = "done"
       /\ pb_exc = "none"
       /\ pb_items = <<>>

DropNaN(a) == SelectIdx(a, [i \in DOMAIN a |-> ~IsNaN(a[i])], 1)

\* median of |x - median(x)| over the sequence a
MedianAbsDev(a) == Median([i \in DOMAIN a |-> FAbs(FSub(a[i], Median(a)))])

\* C6: for a collection with at least one number and any count of NaN
\* entries, mad returns the median of |x - median(x)| taken over the
\* non-NaN entries, a non-negative number.
C6_MadExcludesNaN ==
  (mad_pc = "returned" /\ \E i \in DOMAIN arr : IsNum(arr[i]))
    => /\ mad_ret = MedianAbsDev(DropNaN(arr))
       /\ IsNum(mad_ret) /\ mad_ret.n >= 0

\* C7: for a region name of the dataset, a call with any re-capitalization
\* of the name selects exactly the rows a call with the name as written in
\* the dataset selects.
C7_RecapitalizationSelectsSameRows ==
  \A nm \in DatasetNames :
    (dbr_pc \notin {"idle", "l37"} /\ SameLetters(region_name, nm)
       /\ \E i \in DOMAIN ts : ts[i].denominazione_regione = nm)
      => regione.index = FilterRows(ts, title(nm)).index

C7_Witness ==
  /\ dbr_pc = "returned"
  /\ SameLetters(region_name, EmiliaRom)
  /\ region_name # EmiliaRom
  /\ region_name # title(region_name)
  /\ Len(regione.index) >= 2
  /\ Len(regione.index) < Len(ts)

ZeroSwabRows ==
  {i \in DOMAIN regione.index : regione.incremento_tamponi_molecolari[i] = Num(0)}

\* C8 as stated: in the returned table every row whose swab delta is 0 has
\* positivity NaN, whatever its nuovi_positivi, and computing the column
\* raises no error.
C8_ZeroSwabDeltaGivesNaN ==
  /\ dbr_exc.line # 47
  /\ (dbr_pc = "returned")
       => \A i \in ZeroSwabRows : IsNaN(regione.tasso_positivita[i])

\* C8 amended: in the returned table a row whose swab delta is 0 has
\* positivity NaN when its nuovi_positivi is 0, +infinity when it is
\* positive and -infinity when it is negative; computing the column raises
\* no error.
C8_ZeroSwabDeltaGivesNaNOrInf ==
  /\ dbr_exc.line # 47
  /\ (dbr_pc = "returned")
       => \A i \in ZeroSwabRows :
            regione.tasso_positivita[i] =
              (IF regione.nuovi_positivi[i] = Num(0) THEN NaN
               ELSE IF regione.nuovi_positivi[i].n > 0 THEN Inf(1)
               ELSE Inf(-1))

C8_Witness ==
  /\ dbr_pc = "returned"
  /\ \E i, j, k \in ZeroSwabRows :
       /\ regione.nuovi_positivi[i] = Num(0)
       /\ regione.nuovi_positivi[j].n > 0
       /\ regione.nuovi_positivi[k].n < 0

UnknownSelector == type \in Selectors \ ValidSelectors
PsEnded == ps_pc \in {"returned", "raised"}

\* C2: called with a type that is not None and not one of the four
\* selectors (and windows that coerce), plot_smooth prints the warning,
\* creates no figure, performs no plotting step and returns normally
\* without raising.
C2_UnknownSelectorWarnsAndSkips ==
  (UnknownSelector /\ PsEnded /\ ps_exc.line # 62)
    => /\ ps_pc = "returned"
       /\ stdout = <<Warning>>
       /\ plt = <<>>

Coercible(x) == int(x).exc = "none"

\* C9: both window sizes are coerced to integers before any plotting
\* action: when either fails coercion the call ends at line 62 with a
\* TypeError or ValueError and the backend has received no call (no figure,
\* plot, save or show); the backend receives calls only once both are ints.
C9_CoercionBeforePlotting ==
  /\ (ps_pc = "l62") => plt = <<>>
  /\ (ps_exc.line = 62)
       => /\ ps_pc = "raised"
          /\ plt = <<>>
          /\ ps_exc.name \in {"TypeError", "ValueError"}
  /\ (ps_pc \notin {"idle", "l62"})
       => ((ps_exc.line = 62) <=> (~Coercible(time_window) \/ ~Coercible(smooth_window)))
  /\ (plt # <<>>) => (time_window.t = "int" /\ smooth_window.t = "int")

C9_Witness ==
  /\ ps_pc = "raised"
  /\ ps_exc = Raise("ValueError", 62)
  /\ Coercible(time_window)
  /\ smooth_window = PyStr(<<"a">>)
  /\ plt = <<>>

\* C10: for an integer time_window >= 1 and a valid selector (and a
\* smoothing span >= 1), the tick stride int(round(time_window/10)) is at
\* least 1, the slice of line 96 is valid and the call reaches the legend,
\* title and show steps without raising.
C10_TickStrideAtLeastOne ==
  (/\ ps_pc \notin {"idle", "l62"}
   /\ time_window.t = "int" /\ time_window.v >= 1
   /\ smooth_window.t = "int" /\ smooth_window.v >= 1
   /\ ~UnknownSelector)
    => /\ ps_pc # "raised"
       /\ (ps_pc \in {"l97", "l102", "returned"} => tick_freq >= 1)

(***************************************************************************)
(* The four functions together: a caller invokes one of them.              *)
(***************************************************************************)
Init == InitProgress \/ InitMad \/ InitRegionFilter \/ InitRegionColumns \/ InitPlot
Next == NextProgress \/ NextMad \/ NextRegion \/ NextPlot
Spec == Init /\ [][Next]_vars

====
